---- MODULE Spec2Model ----
(***************************************************************************)
(* Model of the StarFive DWMAC platform glue driver                        *)
(* (drivers/net/ethernet/stmicro/stmmac/dwmac-starfive.c).                 *)
(*                                                                         *)
(* The attach routine starfive_dwmac_probe is modelled statement by        *)
(* statement (one action per call into a host subsystem), the helper       *)
(* starfive_dwmac_set_mode and the runtime callback                        *)
(* starfive_eth_fix_mac_speed as one action each.  Unsigned 32-bit words   *)
(* are sets of bit positions, so that shifts truncate as in C.  Pointers   *)
(* are integers: 0 is NULL, 1 a valid object, a negative number ERR_PTR.   *)
(***************************************************************************)
EXTENDS Integers, Sequences, FiniteSets, TLC

VARIABLES pc, ret, err, plat_dat, plat, dwmac_p, dwmac, args, regmap,
          set_mode_ret, dvr_ret, regWrites, calls, rateReqs, clkTxRate,
          released, log, trace

vars == <<pc, ret, err, plat_dat, plat, dwmac_p, dwmac, args, regmap,
          set_mode_ret, dvr_ret, regWrites, calls, rateReqs, clkTxRate,
          released, log, trace>>

(* ---------------------------- bounds ---------------------------------- *)
MaxCalls == 2
MaxFieldWidth == 2

(* ------------------------ program constants --------------------------- *)
MACPHYC_PHY_INFT_RMII == 4
MACPHYC_PHY_INFT_RGMII == 1
WordBits == 32
SPEED_1000 == 1000
SPEED_100 == 100
SPEED_10 == 10
EINVAL == 22
ENOMEM == 12

(* other error codes the host subsystems may hand back *)
ErrCodes == {-19, -517}

NULL == 0
VALID == 1
IS_ERR(p) == p < 0
PTR_ERR(p) == p

(* ------------------------- input domains ------------------------------ *)
Interfaces == {"RMII", "RGMII", "RGMII_ID", "RGMII_TXID", "MII"}
Speeds == {SPEED_10, SPEED_100, SPEED_1000, 2500}
InitialTxRates == {25000000, 125000000}
Regs == {12, 144}
FieldShifts == {0, 18, 31}
Word == 0 .. (WordBits - 1)
Field(s, w) == {b \in Word : s <= b /\ b < s + w}
Masks == {{}} \cup {Field(s, w) : s \in FieldShifts, w \in 1 .. MaxFieldWidth}

(* values an uninitialised automatic variable may hold *)
UninitModes == {{}, {0, 1, 2}, Word}
UninitRates == {0, 125000000}
(* results of __ffs(0), which is undefined *)
UndefFfs == {0, WordBits - 1}

(* --------------------------- pure helpers ----------------------------- *)
BitsOf(n) == {i \in 0 .. 15 : (n \div (2 ^ i)) % 2 = 1}

Shl(bits, k) == {b + k : b \in bits} \cap Word

MinOf(S) == CHOOSE i \in S : \A j \in S : i <= j

ffs(mask, undef) == IF mask = {} THEN undef ELSE MinOf(mask)

InterfaceSupported(iface) == iface \in {"RMII", "RGMII", "RGMII_ID"}

InterfaceMode_mut(iface, uninit) ==
    CASE iface = "RMII" -> BitsOf(MACPHYC_PHY_INFT_RGMII)
      [] iface \in {"RGMII", "RGMII_ID"} -> BitsOf(MACPHYC_PHY_INFT_RMII)
      [] OTHER -> uninit
InterfaceMode(iface, uninit) ==
    CASE iface = "RMII" -> BitsOf(MACPHYC_PHY_INFT_RMII)
      [] iface \in {"RGMII", "RGMII_ID"} -> BitsOf(MACPHYC_PHY_INFT_RGMII)
      [] OTHER -> uninit

SpeedSupported(speed) == speed \in {SPEED_1000, SPEED_100, SPEED_10}

SpeedRate_mut(speed, uninit) ==
    CASE speed = SPEED_1000 -> 125000000
      [] speed = SPEED_100 -> 2500000
      [] speed = SPEED_10 -> 25000000
      [] OTHER -> uninit
SpeedRate(speed, uninit) ==
    CASE speed = SPEED_1000 -> 125000000
      [] speed = SPEED_100 -> 25000000
      [] speed = SPEED_10 -> 2500000
      [] OTHER -> uninit

UseExternalClk_mut(d) == FALSE
UseExternalClk(d) == d.tx_use_rgmii_rxin_clk

(* ------------------------------ state --------------------------------- *)
Init ==
    /\ pc = "get_platform_resources"
    /\ ret = 0
    /\ err = 0
    /\ plat_dat = NULL
    /\ plat = [interface |-> "NA", fix_mac_speed |-> "NULL", init |-> "NULL",
               bsp_priv |-> NULL, dche |-> FALSE]
    /\ dwmac_p = NULL
    /\ dwmac = [dev |-> NULL, clk_tx |-> NULL, clk_gtx |-> NULL,
                tx_use_rgmii_rxin_clk |-> FALSE]
    /\ args = [called |-> FALSE, err |-> 0, reg |-> 0, mask |-> {}]
    /\ regmap = NULL
    /\ set_mode_ret = 0
    /\ dvr_ret = 0
    /\ regWrites = <<>>
    /\ calls = <<>>
    /\ rateReqs = <<>>
    /\ clkTxRate \in InitialTxRates
    /\ released = 0
    /\ log = {}
    /\ trace = <<>>

(* ------------------- starfive_dwmac_probe, by statement --------------- *)
GetPlatformResources ==
    /\ pc = "get_platform_resources"
    /\ \E e \in {0} \cup ErrCodes :
         /\ err' = e
         /\ IF e # 0
              THEN pc' = "done" /\ ret' = e
              ELSE pc' = "probe_config_dt" /\ ret' = ret
    /\ trace' = Append(trace, "stmmac_get_platform_resources")
    /\ UNCHANGED <<plat_dat, plat, dwmac_p, dwmac, args, regmap, set_mode_ret,
                   dvr_ret, regWrites, calls, rateReqs, clkTxRate, released, log>>

ProbeConfigDt ==
    /\ pc = "probe_config_dt"
    /\ \E p \in {VALID} \cup ErrCodes, iface \in Interfaces :
         /\ plat_dat' = p
         /\ IF IS_ERR(p)
              THEN /\ log' = log \cup {"dt configuration failed"}
                   /\ pc' = "done"
                   /\ ret' = PTR_ERR(p)
                   /\ plat' = plat
              ELSE /\ log' = log
                   /\ pc' = "kzalloc"
                   /\ ret' = ret
                   /\ plat' = [plat EXCEPT !.interface = iface]
    /\ trace' = Append(trace, "stmmac_probe_config_dt")
    /\ UNCHANGED <<err, dwmac_p, dwmac, args, regmap, set_mode_ret, dvr_ret,
                   regWrites, calls, rateReqs, clkTxRate, released>>

Kzalloc ==
    /\ pc = "kzalloc"
    /\ \E p \in {VALID, NULL} :
         /\ dwmac_p' = p
         /\ IF p = NULL
              THEN pc' = "done" /\ ret' = -ENOMEM
              ELSE pc' = "clk_tx" /\ ret' = ret
    /\ trace' = Append(trace, "devm_kzalloc")
    /\ UNCHANGED <<err, plat_dat, plat, dwmac, args, regmap, set_mode_ret,
                   dvr_ret, regWrites, calls, rateReqs, clkTxRate, released, log>>

ClkTx_mut ==
    /\ pc = "clk_tx"
    /\ \E c \in {VALID} \cup ErrCodes :
         /\ dwmac' = [dwmac EXCEPT !.clk_tx = c]
         /\ pc' = "clk_gtx"
         /\ ret' = ret
         /\ log' = IF IS_ERR(c) THEN log \cup {"error getting tx clock"} ELSE log
    /\ trace' = Append(trace, "devm_clk_get_enabled_tx")
    /\ UNCHANGED <<err, plat_dat, plat, dwmac_p, args, regmap, set_mode_ret,
                   dvr_ret, regWrites, calls, rateReqs, clkTxRate, released>>
ClkTx ==
    /\ pc = "clk_tx"
    /\ \E c \in {VALID} \cup ErrCodes :
         /\ dwmac' = [dwmac EXCEPT !.clk_tx = c]
         /\ IF IS_ERR(c)
              THEN /\ log' = log \cup {"error getting tx clock"}
                   /\ pc' = "done"
                   /\ ret' = PTR_ERR(c)
              ELSE /\ log' = log
                   /\ pc' = "clk_gtx"
                   /\ ret' = ret
    /\ trace' = Append(trace, "devm_clk_get_enabled_tx")
    /\ UNCHANGED <<err, plat_dat, plat, dwmac_p, args, regmap, set_mode_ret,
                   dvr_ret, regWrites, calls, rateReqs, clkTxRate, released>>

ClkGtx ==
    /\ pc = "clk_gtx"
    /\ \E c \in {VALID} \cup ErrCodes :
         /\ dwmac' = [dwmac EXCEPT !.clk_gtx = c]
         /\ IF IS_ERR(c)
              THEN /\ log' = log \cup {"error getting gtx clock"}
                   /\ pc' = "done"
                   /\ ret' = PTR_ERR(c)
              ELSE /\ log' = log
                   /\ pc' = "setup"
                   /\ ret' = ret
    /\ trace' = Append(trace, "devm_clk_get_enabled_gtx")
    /\ UNCHANGED <<err, plat_dat, plat, dwmac_p, args, regmap, set_mode_ret,
                   dvr_ret, regWrites, calls, rateReqs, clkTxRate, released>>

(* lines 132-139: read the external-clock property, fill in the context   *)
(* record and install the callback in the platform data                   *)
Setup_mut ==
    /\ pc = "setup"
    /\ \E prop \in BOOLEAN :
         dwmac' = [dwmac EXCEPT
                     !.tx_use_rgmii_rxin_clk = IF prop THEN TRUE ELSE @,
                     !.dev = VALID]
    /\ plat' = [plat EXCEPT !.fix_mac_speed = "starfive_eth_fix_mac_speed",
                            !.init = "NULL",
                            !.bsp_priv = dwmac_p,
                            !.dche = TRUE]
    /\ pc' = "dvr_probe"
    /\ trace' = Append(trace, "device_property_read_bool")
    /\ UNCHANGED <<ret, err, plat_dat, dwmac_p, args, regmap, set_mode_ret,
                   dvr_ret, regWrites, calls, rateReqs, clkTxRate, released, log>>
Setup ==
    /\ pc = "setup"
    /\ \E prop \in BOOLEAN :
         dwmac' = [dwmac EXCEPT
                     !.tx_use_rgmii_rxin_clk = IF prop THEN TRUE ELSE @,
                     !.dev = VALID]
    /\ plat' = [plat EXCEPT !.fix_mac_speed = "starfive_eth_fix_mac_speed",
                            !.init = "NULL",
                            !.bsp_priv = dwmac_p,
                            !.dche = TRUE]
    /\ pc' = "set_mode"
    /\ trace' = Append(trace, "device_property_read_bool")
    /\ UNCHANGED <<ret, err, plat_dat, dwmac_p, args, regmap, set_mode_ret,
                   dvr_ret, regWrites, calls, rateReqs, clkTxRate, released, log>>

(* line 141: the return value of starfive_dwmac_set_mode is discarded     *)
AfterSetMode_mut(r) ==
    IF r # 0 THEN pc' = "done" /\ ret' = r
             ELSE pc' = "dvr_probe" /\ ret' = ret
AfterSetMode(r) == pc' = "dvr_probe" /\ ret' = ret

(* result of regmap_update_bits *)
UpdateResults == {0, -5}

starfive_dwmac_set_mode ==
    /\ pc = "set_mode"
    /\ \E uninit \in UninitModes, lookup \in {0, -EINVAL, -2},
          a0 \in Regs, a1 \in Masks, rm \in {VALID} \cup ErrCodes,
          undef \in UndefFfs, upd \in UpdateResults :
         LET iface == plat.interface
             mode == InterfaceMode(iface, uninit)
             log1 == IF InterfaceSupported(iface)
                       THEN log
                       ELSE log \cup {"Unsupported interface"}
         IN  IF lookup # 0
               THEN /\ args' = [called |-> TRUE, err |-> lookup,
                                reg |-> 0, mask |-> {}]
                    /\ log' = log1 \cup {"syscon reg not found"}
                    /\ regmap' = regmap
                    /\ regWrites' = regWrites
                    /\ set_mode_ret' = -EINVAL
                    /\ trace' = Append(trace, "starfive_dwmac_set_mode")
                    /\ AfterSetMode(-EINVAL)
               ELSE /\ args' = [called |-> TRUE, err |-> 0,
                                reg |-> a0, mask |-> a1]
                    /\ log' = log1
                    /\ regmap' = rm
                    /\ IF IS_ERR(rm)
                         THEN /\ regWrites' = regWrites
                              /\ set_mode_ret' = PTR_ERR(rm)
                              /\ trace' = Append(trace, "starfive_dwmac_set_mode")
                              /\ AfterSetMode(PTR_ERR(rm))
                         ELSE /\ regWrites' = Append(regWrites,
                                     [reg |-> a0, mask |-> a1,
                                      val |-> Shl(mode, ffs(a1, undef))])
                              /\ set_mode_ret' = upd
                              /\ trace' = trace \o <<"starfive_dwmac_set_mode",
                                                     "regmap_update_bits">>
                              /\ AfterSetMode(upd)
    /\ UNCHANGED <<err, plat_dat, plat, dwmac_p, dwmac, dvr_ret, calls,
                   rateReqs, clkTxRate, released>>

(* line 142: control passes to the external MAC driver                    *)
DvrProbeCall ==
    /\ pc = "dvr_probe"
    /\ pc' = "dvr_running"
    /\ trace' = Append(trace, "stmmac_dvr_probe")
    /\ UNCHANGED <<ret, err, plat_dat, plat, dwmac_p, dwmac, args, regmap,
                   set_mode_ret, dvr_ret, regWrites, calls, rateReqs,
                   clkTxRate, released, log>>

(* lines 142-148: stmmac_dvr_probe returns                                *)
DvrProbeReturn ==
    /\ pc = "dvr_running"
    /\ \E e \in {0} \cup ErrCodes :
         /\ dvr_ret' = e
         /\ ret' = e
         /\ IF e # 0
              THEN /\ released' = released + 1
                   /\ trace' = Append(trace, "stmmac_remove_config_dt")
              ELSE /\ released' = released
                   /\ trace' = trace
    /\ pc' = "done"
    /\ UNCHANGED <<err, plat_dat, plat, dwmac_p, dwmac, args, regmap,
                   set_mode_ret, regWrites, calls, rateReqs, clkTxRate, log>>

(* The external MAC driver holds the platform data from the call of       *)
(* stmmac_dvr_probe on, and keeps it while the device stays bound.        *)
Bound == pc = "dvr_running" \/ (pc = "done" /\ ret = 0)

(* result of clk_set_rate *)
SetRateResults == {0, -EINVAL}

starfive_eth_fix_mac_speed ==
    /\ Bound
    /\ plat.fix_mac_speed = "starfive_eth_fix_mac_speed"
    /\ plat.bsp_priv = VALID
    /\ Len(calls) < MaxCalls
    /\ \E speed \in Speeds, uninit \in UninitRates, e \in SetRateResults :
         /\ calls' = Append(calls, speed)
         /\ IF UseExternalClk(dwmac)
              THEN UNCHANGED <<rateReqs, clkTxRate, log, trace>>
              ELSE LET rate == SpeedRate(speed, uninit)
                       log1 == IF SpeedSupported(speed)
                                 THEN log
                                 ELSE log \cup {"invalid speed"}
                   IN  /\ rateReqs' = Append(rateReqs,
                              [call |-> Len(calls) + 1, rate |-> rate])
                       /\ trace' = Append(trace, "clk_set_rate")
                       /\ IF e = 0
                            THEN clkTxRate' = rate /\ log' = log1
                            ELSE /\ clkTxRate' = clkTxRate
                                 /\ log' = log1 \cup {"failed to set tx rate"}
    /\ UNCHANGED <<pc, ret, err, plat_dat, plat, dwmac_p, dwmac, args, regmap,
                   set_mode_ret, dvr_ret, regWrites, released>>

Next ==
    \/ GetPlatformResources
    \/ ProbeConfigDt
    \/ Kzalloc
    \/ ClkTx
    \/ ClkGtx
    \/ Setup
    \/ starfive_dwmac_set_mode
    \/ DvrProbeCall
    \/ DvrProbeReturn
    \/ starfive_eth_fix_mac_speed

Spec == Init /\ [][Next]_vars

TypeOK ==
    /\ pc \in {"get_platform_resources", "probe_config_dt", "kzalloc",
               "clk_tx", "clk_gtx", "setup", "set_mode", "dvr_probe",
               "dvr_running", "done"}
    /\ Len(calls) <= MaxCalls
    /\ Len(rateReqs) <= Len(calls)
    /\ released \in {0, 1}

(* ------------------------- claim vocabulary --------------------------- *)
Occurs(e) == {i \in DOMAIN trace : trace[i] = e}

Acquisitions == {"stmmac_get_platform_resources", "stmmac_probe_config_dt",
                 "devm_kzalloc", "devm_clk_get_enabled_tx",
                 "devm_clk_get_enabled_gtx"}

RequestsOf(i) == {j \in DOMAIN rateReqs : rateReqs[j].call = i}

LowestBit(mask) == CHOOSE i \in mask : \A j \in mask : i <= j

(* C1: in starfive_dwmac_set_mode, for a supported interface type and a   *)
(* non-zero mask, when the phandle lookup and the regmap resolution       *)
(* succeed, exactly one register update is issued, on the offset of the   *)
(* first phandle argument, with that mask and with the value              *)
(* (mode code << lowest set bit of the mask) as a 32-bit word, the mode   *)
(* code being 0x4 (bit 2) for RMII and 0x1 (bit 0) for RGMII / RGMII-ID.  *)
C1_SetModeWrite ==
    (/\ args.called
     /\ args.err = 0
     /\ regmap = VALID
     /\ plat.interface \in {"RMII", "RGMII", "RGMII_ID"}
     /\ args.mask # {})
    => LET code == IF plat.interface = "RMII" THEN {2} ELSE {0}
           val == {b \in 0 .. 31 : (b - LowestBit(args.mask)) \in code}
       IN  regWrites = <<[reg |-> args.reg, mask |-> args.mask, val |-> val]>>

C1_Witness ==
    /\ args.called
    /\ plat.interface = "RMII"
    /\ Len(regWrites) = 1
    /\ regWrites[1].mask = {18, 19}
    /\ regWrites[1].val = {20}

(* C2: with the external-clock flag clear, every invocation of the        *)
(* speed-change callback with speed 1000, 100 or 10 issues exactly one    *)
(* rate request on the tx clock, with rate 125000000, 25000000 and        *)
(* 2500000 Hz respectively, whatever the earlier invocations were.        *)
C2_SupportedSpeedRate ==
    (~dwmac.tx_use_rgmii_rxin_clk)
    => \A i \in DOMAIN calls :
         (calls[i] \in {1000, 100, 10})
         => /\ Cardinality(RequestsOf(i)) = 1
            /\ \A j \in RequestsOf(i) :
                 rateReqs[j].rate = (CASE calls[i] = 1000 -> 125000000
                                       [] calls[i] = 100 -> 25000000
                                       [] calls[i] = 10 -> 2500000)

C2_Witness ==
    /\ ~dwmac.tx_use_rgmii_rxin_clk
    /\ Len(calls) >= 2
    /\ calls[1] = 10
    /\ calls[2] = 100
    /\ Len(rateReqs) >= 2
    /\ rateReqs[1].rate = 2500000
    /\ rateReqs[2].rate = 25000000

(* C3: once the external-clock flag is set, no invocation of the          *)
(* speed-change callback, with a supported speed or not, issues a rate    *)
(* request, and the tx clock rate never changes.                          *)
C3_ExternalClkNoRequest ==
    /\ [](dwmac.tx_use_rgmii_rxin_clk => rateReqs = <<>>)
    /\ [][dwmac.tx_use_rgmii_rxin_clk
            => (clkTxRate' = clkTxRate /\ rateReqs' = rateReqs)]_vars

C3_Witness ==
    /\ dwmac.tx_use_rgmii_rxin_clk
    /\ Len(calls) >= 2
    /\ calls[1] = 1000
    /\ calls[2] = 2500
    /\ rateReqs = <<>>

(* C4: when the starfive,syscon phandle lookup fails during attach,       *)
(* attach returns -EINVAL and no system-controller register write is      *)
(* issued.                                                                *)
C4_LookupFailureAborts ==
    (pc = "done" /\ args.called /\ args.err # 0)
    => (ret = -EINVAL /\ regWrites = <<>>)

(* C5: for a PHY interface type other than RMII, RGMII and RGMII-ID,      *)
(* starfive_dwmac_set_mode logs the unsupported-interface error and       *)
(* issues no register update, whatever the phandle arguments are.         *)
C5_UnsupportedNoWrite ==
    (args.called /\ plat.interface \notin {"RMII", "RGMII", "RGMII_ID"})
    => ("Unsupported interface" \in log /\ regWrites = <<>>)

(* C6: with the external-clock flag clear, an invocation of the           *)
(* speed-change callback with a speed other than 1000, 100 or 10 logs the *)
(* error and issues no rate request on the tx clock.                      *)
C6_InvalidSpeedNoRequest ==
    (~dwmac.tx_use_rgmii_rxin_clk)
    => \A i \in DOMAIN calls :
         (calls[i] \notin {1000, 100, 10})
         => ("invalid speed" \in log /\ RequestsOf(i) = {})

(* C7: when acquiring the platform resources, the device-tree             *)
(* configuration, the context record, the tx clock or the gtx clock       *)
(* fails, attach returns that failure at once: no later acquisition is    *)
(* attempted, no register write is issued and stmmac_dvr_probe is never   *)
(* invoked.                                                               *)
C7_AcquisitionFailureReturns ==
    LET steps == <<"stmmac_get_platform_resources", "stmmac_probe_config_dt",
                   "devm_kzalloc", "devm_clk_get_enabled_tx",
                   "devm_clk_get_enabled_gtx">>
        Stopped(n, e) == /\ pc = "done"
                         /\ ret = e
                         /\ trace = SubSeq(steps, 1, n)
                         /\ regWrites = <<>>
                         /\ Occurs("stmmac_dvr_probe") = {}
    IN  /\ (err # 0) => Stopped(1, err)
        /\ (plat_dat < 0) => Stopped(2, plat_dat)
        /\ (pc \notin {"get_platform_resources", "probe_config_dt", "kzalloc"}
              /\ err = 0 /\ plat_dat = 1 /\ dwmac_p = 0) => Stopped(3, -12)
        /\ (dwmac.clk_tx < 0) => Stopped(4, dwmac.clk_tx)
        /\ (dwmac.clk_gtx < 0) => Stopped(5, dwmac.clk_gtx)

C7_Witness ==
    /\ pc = "done"
    /\ dwmac.clk_tx < 0
    /\ ret = dwmac.clk_tx
    /\ Len(trace) = 4

(* C8: in every attach run the acquisitions (both clocks enabled) come    *)
(* first, then the mode computation and its register write (if any),      *)
(* then the delegation to stmmac_dvr_probe, at which point the callback   *)
(* and its context pointer are installed; so every tx clock-rate request  *)
(* comes after the register-write step and after the external-clock flag  *)
(* has been read.                                                         *)
C8_AttachOrder ==
    /\ \A i \in Occurs("starfive_dwmac_set_mode") :
         /\ \A a \in Acquisitions \cup {"device_property_read_bool"} :
              \E j \in Occurs(a) : j < i
         /\ dwmac.clk_tx = 1
         /\ dwmac.clk_gtx = 1
    /\ \A i \in Occurs("stmmac_dvr_probe") :
         /\ \E j \in Occurs("starfive_dwmac_set_mode") : j < i
         /\ \A k \in Occurs("regmap_update_bits") : k < i
         /\ plat.fix_mac_speed = "starfive_eth_fix_mac_speed"
         /\ plat.bsp_priv = 1
    /\ \A i \in Occurs("clk_set_rate") :
         /\ \E j \in Occurs("starfive_dwmac_set_mode") : j < i
         /\ \E j \in Occurs("device_property_read_bool") : j < i
         /\ \E j \in Occurs("stmmac_dvr_probe") : j < i
         /\ \A k \in Occurs("regmap_update_bits") : k < i

C8_Witness ==
    /\ Occurs("regmap_update_bits") # {}
    /\ Occurs("clk_set_rate") # {}
    /\ pc = "done"

(* C9: once every acquisition of attach has succeeded, stmmac_dvr_probe   *)
(* is invoked and attach returns exactly its result, whatever             *)
(* starfive_dwmac_set_mode returned: neither an unsupported interface     *)
(* type nor an error return of set_mode makes attach fail or skip the     *)
(* delegation.                                                            *)
C9_DelegationRegardless ==
    /\ (dwmac.clk_gtx = 1 /\ args.called)
         => pc \in {"dvr_probe", "dvr_running", "done"}
    /\ (dwmac.clk_gtx = 1 /\ pc = "done")
         => (Occurs("stmmac_dvr_probe") # {} /\ ret = dvr_ret)

C9_Witness ==
    /\ pc = "done"
    /\ plat.interface = "MII"
    /\ set_mode_ret = -22
    /\ Occurs("stmmac_dvr_probe") # {}
    /\ ret = 0

(* C10: whenever attach returns a failure after stmmac_probe_config_dt    *)
(* succeeded, the configuration has been released exactly once by         *)
(* stmmac_remove_config_dt; when attach succeeds it is not released.      *)
C10_ConfigReleasedOnFailure ==
    (pc = "done" /\ plat_dat = 1)
    => /\ (ret # 0) => (released = 1)
       /\ (ret = 0) => (released = 0)
====
